---- MODULE Spec2Model ----
(***************************************************************************)
(* Model of the match-selection engine of MyAI_Assistant:                  *)
(*   DocumentAnalysisService  (src/application/document_analysis_service.py)*)
(*   ClipSearchEngine feedback (src/infrastructure/ai/clip_search_engine.py)*)
(*                                                                         *)
(* Representation of the floats of the source:                             *)
(*   - a score is an integer number of hundredths (0.25 -> 25, 1.0 -> 100);*)
(*   - a timestamp is an integer number of half-seconds, so that the       *)
(*     midpoint (start+end)/2 of a segment whose bounds are whole seconds  *)
(*     is exact.                                                           *)
(***************************************************************************)
EXTENDS Integers, Sequences, FiniteSets, TLC

VARIABLES
    used_frames_history, \* DocumentAnalysisService.used_frames_history
    pc,                  \* position of analyze_document: idle / loop /
                         \*   searched / selected
    idx,                 \* loop index of analyze_document (blocks started)
    total_blocks,        \* len(blocks) of the current run
    runs,                \* number of analyze_document calls so far
    mode,                \* which search produced the candidates: frame / segment
    cands,               \* the candidate list held by _process_block
    sel,                 \* outcome of the last selection (plan A / plan B / nothing)
    results,             \* results of the current run: the indices of the
                         \*   blocks whose MatchRecord was appended
    uniqueLog,           \* every plan-A selection since construction (observer)
    feedback,            \* ClipSearchEngine.feedback: positive / negative key sets
    feedback_lock,       \* ClipSearchEngine.feedback_lock: "free" or its holder
    feedback_file,       \* the feedback file: whether it exists, its two lists
    _initialized,        \* ClipSearchEngine._initialized
    rf,                  \* per thread: position and locals of record_feedback
    ld,                  \* position and locals of is_ready / _load_feedback
    sr,                  \* position and locals of search
    events,              \* calls of progress_callback in the current run
    blockLog,            \* outcome of each block of the current run (observer)
    call,                \* the last analyze_document call: how it ended and
                         \*   what its precondition checks met (observer)
    thread,              \* background thread of App.start_process
    after_queue,         \* callbacks scheduled with self.after(0, ...)
    btn_run,             \* state of the run button: normal / disabled
    ui_status,           \* what the status line shows
    document_source      \* GoogleDocsClient: doc_id and _connected

svars == <<used_frames_history, pc, idx, total_blocks, runs, mode, cands, sel,
           results, uniqueLog>>
evars == <<feedback, feedback_lock, feedback_file, _initialized, rf, ld, sr>>
avars == <<events, blockLog, call, thread, after_queue, btn_run, ui_status,
           document_source>>
vars == <<svars, evars, avars>>

----------------------------------------------------------------------------
(* Bounds of the model *)

MaxTime == 2        \* timestamps range over 0..MaxTime half-seconds
MaxCands == 2       \* longest candidate list a search returns (Spec)
MaxRunCands == 1    \* longest candidate list a search returns (SpecRun)
MaxBlocks == 2      \* most blocks in one document
MaxRuns == 2        \* analyze_document calls on one service
MaxUnique == 3      \* plan-A selections followed by the observer
MaxHits == 1        \* most hits one search scores
SearchLimit == 2    \* the limit a search is called with
MaxRankHits == 2    \* most hits one query of a search returns (SpecRank)
MaxRawStep == 7     \* raw scores of SpecAdjust go up to 0.2 * MaxRawStep

(* Constructor parameters of DocumentAnalysisService *)
score_threshold == 25   \* 0.25, in hundredths
history_size == 2       \* small instance of the parameter (default 15)
time_window == 2        \* half-seconds (1.0 s; default 5.0 s)

Videos == {"a.mp4", "b.mp4"}
Documents == {"doc1", "doc2"}   \* document ids a run can be started with
Times == 0..MaxTime
Scores == {10, score_threshold, 30}

----------------------------------------------------------------------------
(* Domain entities *)

\* VisualFrame(video_filename, timestamp): timestamp >= 0, filename non-empty
VisualFrame == [video_filename : Videos, timestamp : Times]

\* VideoSegment(video_filename, start_time, end_time): 0 <= start < end.
\* Only segments with an integral midpoint are enumerated.
VideoSegment ==
    {s \in [video_filename : Videos, start_time : Times, end_time : Times] :
        /\ s.start_time < s.end_time
        /\ (s.start_time + s.end_time) % 2 = 0}

\* VideoSegment.get_middle_timestamp
get_middle_timestamp(segment) == (segment.start_time + segment.end_time) \div 2

Abs(x) == IF x < 0 THEN -x ELSE x

None == [kind |-> "none"]

----------------------------------------------------------------------------
(* Recency / dedup tracker *)

\* variant of _is_duplicate: the window bound taken inclusively (<=)
_is_duplicate_inclusive(frame, history) ==
    \E i \in 1..Len(history) :
        /\ frame.video_filename = history[i][1]
        /\ Abs(frame.timestamp - history[i][2]) <= time_window

\* variant of _is_duplicate: no frame counts as a duplicate
_is_duplicate_never(frame, history) == FALSE

\* DocumentAnalysisService._is_duplicate
_is_duplicate(frame, history) ==
    \E i \in 1..Len(history) :
        /\ frame.video_filename = history[i][1]
        /\ Abs(frame.timestamp - history[i][2]) < time_window

\* DocumentAnalysisService._is_duplicate_segment
_is_duplicate_segment(segment, history) ==
    LET middle_time == get_middle_timestamp(segment) IN
    \E i \in 1..Len(history) :
        /\ segment.video_filename = history[i][1]
        /\ Abs(middle_time - history[i][2]) < time_window

\* variant of AppendBounded: pop() drops the newest entry, not the oldest
AppendBounded_popLast(history, entry) ==
    LET h == Append(history, entry) IN
    IF Len(h) > history_size THEN SubSeq(h, 1, Len(h) - 1) ELSE h

\* append, then pop(0) when the list is longer than history_size
AppendBounded(history, entry) ==
    LET h == Append(history, entry) IN
    IF Len(h) > history_size THEN Tail(h) ELSE h

\* DocumentAnalysisService._add_to_history
_add_to_history(history, frame) ==
    AppendBounded(history, <<frame.video_filename, frame.timestamp>>)

\* DocumentAnalysisService._add_segment_to_history
_add_segment_to_history(history, segment) ==
    AppendBounded(history, <<segment.video_filename, get_middle_timestamp(segment)>>)

----------------------------------------------------------------------------
(* Candidate lists: what search / search_segments hand to the selection.    *)
(* Both end with adjusted.sort(key=score, reverse=True); adjusted[:limit],  *)
(* and build the list from a dict keyed by corpus index, so a list is      *)
(* sorted by non-increasing score and holds each unit at most once.        *)

IsRanked(list) ==
    /\ \A i \in 1..Len(list) : \A j \in 1..Len(list) :
          i < j => list[i].score >= list[j].score
    /\ \A i \in 1..Len(list) : \A j \in 1..Len(list) :
          i # j => list[i].unit # list[j].unit

RankedLists(Units, maxlen) ==
    UNION {
        {list \in [1..n -> [unit : Units, score : Scores]] : IsRanked(list)} :
        n \in 0..maxlen }

FrameLists == RankedLists(VisualFrame, MaxCands)
SegmentLists == RankedLists(VideoSegment, MaxCands) \ {<<>>}
RunFrameLists == RankedLists(VisualFrame, MaxRunCands)
RunSegmentLists == RankedLists(VideoSegment, MaxRunCands) \ {<<>>}

----------------------------------------------------------------------------
(* Selection policy: Unique > Duplicate > Nothing *)

\* variant of ScanFrames: the scan stops at the first duplicate (break
\* in place of falling through to the next candidate)
ScanFrames_stopAtDuplicate(search_results, history, i) ==
    IF i > Len(search_results) THEN 0
    ELSE IF search_results[i].score < score_threshold THEN 0
    ELSE IF ~_is_duplicate(search_results[i].unit, history) THEN i
    ELSE 0

\* variant of ScanFrames: the scan breaks at score <= score_threshold
RECURSIVE ScanFrames_strict(_, _, _)
ScanFrames_strict(search_results, history, i) ==
    IF i > Len(search_results) THEN 0
    ELSE IF search_results[i].score <= score_threshold THEN 0
    ELSE IF ~_is_duplicate(search_results[i].unit, history) THEN i
    ELSE ScanFrames_strict(search_results, history, i + 1)

\* the for-loop of _process_block (lines 105-113): index of the unique
\* candidate, 0 when the loop ends or breaks without one
RECURSIVE ScanFrames(_, _, _)
ScanFrames(search_results, history, i) ==
    IF i > Len(search_results) THEN 0
    ELSE IF search_results[i].score < score_threshold THEN 0
    ELSE IF ~_is_duplicate(search_results[i].unit, history) THEN i
    ELSE ScanFrames(search_results, history, i + 1)

\* the for-loop of _process_segment_results (lines 151-159)
RECURSIVE ScanSegments(_, _, _)
ScanSegments(segment_results, history, i) ==
    IF i > Len(segment_results) THEN 0
    ELSE IF segment_results[i].score < score_threshold THEN 0
    ELSE IF ~_is_duplicate_segment(segment_results[i].unit, history) THEN i
    ELSE ScanSegments(segment_results, history, i + 1)

\* variant of Decide: plan B falls back to the last candidate of the list
Decide_fallbackLast(list, u) ==
    LET last == list[Len(list)] IN
    IF u # 0 THEN
        [kind |-> "unique", unit |-> list[u].unit, score |-> list[u].score]
    ELSE IF last.score >= score_threshold THEN
        [kind |-> "duplicate", unit |-> last.unit, score |-> last.score]
    ELSE None

\* variant of Decide: plan B without the threshold test
Decide_noGate(list, u) ==
    IF u # 0 THEN
        [kind |-> "unique", unit |-> list[u].unit, score |-> list[u].score]
    ELSE [kind |-> "duplicate", unit |-> list[1].unit, score |-> list[1].score]

\* lines 115-128 / 161-174: plan A, else plan B, else nothing.
\* best is the absolute best candidate, u the index found by the scan.
Decide(list, u) ==
    LET absolute_best == list[1] IN
    IF u # 0 THEN
        [kind |-> "unique", unit |-> list[u].unit, score |-> list[u].score]
    ELSE IF absolute_best.score >= score_threshold THEN
        [kind |-> "duplicate", unit |-> absolute_best.unit,
         score |-> absolute_best.score]
    ELSE None

\* _process_block after the frame search (lines 95-128)
SelectFrame(search_results, history) ==
    IF search_results = <<>> THEN None
    ELSE Decide(search_results, ScanFrames(search_results, history, 1))

\* _process_segment_results (lines 145-174); called with a non-empty list
SelectSegment(segment_results, history) ==
    Decide(segment_results, ScanSegments(segment_results, history, 1))

\* variant of HistoryAfter: took_duplicate is ignored, every selection is
\* added to the history
HistoryAfter_always(m, selection, history) ==
    IF selection # None THEN
        IF m = "segment" THEN _add_segment_to_history(history, selection.unit)
        ELSE _add_to_history(history, selection.unit)
    ELSE history

\* lines 130-132 / 176-178: only a unique selection extends the history
HistoryAfter(m, selection, history) ==
    IF selection.kind = "unique" THEN
        IF m = "segment" THEN _add_segment_to_history(history, selection.unit)
        ELSE _add_to_history(history, selection.unit)
    ELSE history

\* the (video_filename, representative_timestamp) pair of a selected unit
HistoryEntry(m, unit) ==
    IF m = "segment" THEN <<unit.video_filename, get_middle_timestamp(unit)>>
    ELSE <<unit.video_filename, unit.timestamp>>

----------------------------------------------------------------------------
(* ClipSearchEngine: feedback store and score adjuster.                    *)
(* Frame timestamps of the library are in milliseconds here, so that the   *)
(* rounding of _feedback_key is a real conversion; feedback keys carry the *)
(* timestamp in hundredths of a second.                                    *)

Threads == {"ui1", "ui2"}      \* threads started by App.handle_feedback

\* self.frames: the indexed library (two frames 4 ms apart, one elsewhere)
LibraryFrames ==
    { [video_filename |-> "a.mp4", timestamp |-> 1000],
      [video_filename |-> "a.mp4", timestamp |-> 1004],
      [video_filename |-> "b.mp4", timestamp |-> 1000] }

\* round(x, 2) on a timestamp in milliseconds (no model timestamp is a tie)
Round2(ms) == (ms + 5) \div 10

\* ClipSearchEngine._feedback_key: f"{video_filename}|{round(timestamp, 2)}"
_feedback_key(frame) == <<frame.video_filename, Round2(frame.timestamp)>>

Keys == {_feedback_key(f) : f \in LibraryFrames}

\* self.feedback = {"positive": set(), "negative": set()}
NoFeedback == [positive |-> {}, negative |-> {}]

\* feedback files a session can have left behind: the two sorted lists that
\* _persist_feedback writes from a store whose sets are disjoint
NoFile == [exists |-> FALSE]

PersistedStates ==
    {NoFile} \cup
    {d \in [exists : {TRUE}, positive : SUBSET Keys, negative : SUBSET Keys] :
        d.positive \cap d.negative = {}}

\* a feedback file that json.load rejects, or whose content is no object
CorruptFile == [exists |-> TRUE, corrupt |-> TRUE]

\* feedback files edited or damaged outside the program: CorruptFile, and
\* objects in which the entries named in scalar hold a value that is not
\* iterable (a number, null) in place of a list
MalformedFiles ==
    {CorruptFile} \cup
    {d \in [exists : {TRUE}, positive : SUBSET Keys, negative : SUBSET Keys,
            scalar : (SUBSET {"positive", "negative"}) \ {{}}] :
        /\ "positive" \in d.scalar => d.positive = {}
        /\ "negative" \in d.scalar => d.negative = {}}

\* objects with two lists of keys, disjoint or not
WellFormedFiles ==
    [exists : {TRUE}, positive : SUBSET Keys, negative : SUBSET Keys]

\* json.load returns an object (line 195)
JsonLoads(file) == "corrupt" \notin DOMAIN file

\* set(data.get(name, [])) raises TypeError (lines 196-197)
IsScalar(data, name) == "scalar" \in DOMAIN data /\ name \in data.scalar

RfIdle == [pc |-> "idle"]
LdIdle == [pc |-> "idle"]
SrIdle == [pc |-> "idle"]

\* ClipSearchEngine.__init__ (lines 16-41)
EngineInit ==
    /\ feedback = NoFeedback
    /\ feedback_lock = "free"
    /\ _initialized = FALSE
    /\ rf = [t \in Threads |-> RfIdle]
    /\ ld = LdIdle
    /\ sr = SrIdle

----------------------------------------------------------------------------
(* State machine of DocumentAnalysisService *)

\* no analyze_document call yet
NoCall == [state |-> "none", connects |-> TRUE, ready |-> TRUE,
           document_id |-> "none", extracted |-> "none"]

\* GoogleDocsClient.__init__ (lines 17-22): no document, not connected
NotConnected == [doc_id |-> "none", _connected |-> FALSE]

\* App.__init__: no analysis thread, the run button enabled
AppInit ==
    /\ thread = "none"
    /\ after_queue = <<>>
    /\ btn_run = "normal"
    /\ ui_status = "ready"

\* DocumentAnalysisService.__init__
ServiceInit ==
    /\ used_frames_history = <<>>
    /\ pc = "idle"
    /\ idx = 0
    /\ total_blocks = 0
    /\ runs = 0
    /\ mode = "none"
    /\ cands = <<>>
    /\ sel = None
    /\ results = <<>>
    /\ uniqueLog = <<>>
    /\ events = <<>>
    /\ blockLog = <<>>
    /\ call = NoCall
    /\ document_source = NotConnected

\* main.create_services: one engine, one service, no feedback file yet
Init == ServiceInit /\ EngineInit /\ AppInit /\ feedback_file = NoFile

\* _process_block from its entry to the selection (lines 88-128, 145-174):
\* which search fed the selection, and what was selected
Selection(m, list, history) ==
    IF m = "segment" THEN SelectSegment(list, history)
    ELSE SelectFrame(list, history)

(* --- Spec: one block at a time, the candidate list visible in the state. *)
(* The history is never reset (see AnalyzeDocument), so the blocks of all  *)
(* runs of a service form one sequence.                                    *)

\* The searches of _process_block (lines 88-97): search_segments, and
\* search only when it returned nothing. A search that raises is caught by
\* the except of the loop (lines 69-74) and the block is skipped.
SearchBlock ==
    /\ pc \in {"idle", "loop"}
    /\ Len(uniqueLog) < MaxUnique
    /\ sel' = None
    /\ \/ /\ mode' = "segment"
          /\ cands' \in SegmentLists
          /\ pc' = "searched"
       \/ /\ mode' = "frame"
          /\ cands' \in FrameLists
          /\ pc' = "searched"
       \/ /\ mode' = "none"
          /\ cands' = <<>>
          /\ pc' = "loop"
    /\ UNCHANGED <<used_frames_history, idx, total_blocks, runs, results, uniqueLog, evars, avars>>

\* The rest of _process_block / _process_segment_results (lines 99-136,
\* 145-182): scan, decide, extend the history on a unique selection.
SelectBlock ==
    /\ pc = "searched"
    /\ sel' = Selection(mode, cands, used_frames_history)
    /\ used_frames_history' = HistoryAfter(mode, sel', used_frames_history)
    /\ uniqueLog' = IF sel'.kind = "unique"
                    THEN Append(uniqueLog, HistoryEntry(mode, sel'.unit))
                    ELSE uniqueLog
    /\ pc' = "selected"
    /\ UNCHANGED <<idx, total_blocks, runs, mode, cands, results, evars, avars>>

\* _process_block returns to the loop (lines 62-67): its locals are gone
ReturnBlock ==
    /\ pc = "selected"
    /\ pc' = "loop"
    /\ mode' = "none"
    /\ cands' = <<>>
    /\ sel' = None
    /\ UNCHANGED <<used_frames_history, idx, total_blocks, runs, results, uniqueLog, evars, avars>>

Next == SearchBlock \/ SelectBlock \/ ReturnBlock

Spec == Init /\ [][Next]_vars

(* --- SpecBlock: _process_block search by search: the segment search, the *)
(* test of its result, the frame search.                                   *)

\* variant of UseSegments: a segment list whose best score is below the
\* threshold is passed over in favour of the frame search
UseSegments_aboveThreshold(segment_results) ==
    segment_results # <<>> /\ segment_results[1].score >= score_threshold

\* line 90: if segment_results:
UseSegments(segment_results) == segment_results # <<>>

\* line 88: search_segments returns its list, empty or not; when it raises
\* the except of the loop (lines 69-74) skips the block
PB_SearchSegments ==
    /\ pc \in {"idle", "loop"}
    /\ Len(uniqueLog) < MaxUnique
    /\ sel' = None
    /\ \/ /\ mode' = "segment"
          /\ cands' \in SegmentLists \cup {<<>>}
          /\ pc' = "segments"
       \/ /\ mode' = "none"
          /\ cands' = <<>>
          /\ pc' = "loop"
    /\ UNCHANGED <<used_frames_history, idx, total_blocks, runs, results, uniqueLog, evars, avars>>

\* lines 90-91: the segment list goes to _process_segment_results
PB_UseSegments ==
    /\ pc = "segments"
    /\ UseSegments(cands)
    /\ pc' = "searched"
    /\ UNCHANGED <<used_frames_history, idx, total_blocks, runs, mode, cands, sel,
                   results, uniqueLog, evars, avars>>

\* line 93: search is called; its list replaces the segment list, or it
\* raises and the block is skipped
PB_SearchFrames ==
    /\ pc = "segments"
    /\ ~UseSegments(cands)
    /\ \/ /\ mode' = "frame"
          /\ cands' \in FrameLists
          /\ pc' = "searched"
       \/ /\ mode' = "none"
          /\ cands' = <<>>
          /\ pc' = "loop"
    /\ UNCHANGED <<used_frames_history, idx, total_blocks, runs, sel, results,
                   uniqueLog, evars, avars>>

NextBlock ==
    \/ PB_SearchSegments
    \/ PB_UseSegments
    \/ PB_SearchFrames
    \/ SelectBlock
    \/ ReturnBlock

SpecBlock == Init /\ [][NextBlock]_vars

(* --- SpecRun: whole runs of analyze_document, a block per step, with the *)
(* calls of progress_callback. The callback itself is taken not to raise.  *)

\* the calls of progress_callback (lines 46, 54-57, 65, 79)
BlocksFound(count) == [type |-> "status", what |-> "blocks_found", idx |-> count]
ProcessingBlock(i) == [type |-> "status", what |-> "processing_block", idx |-> i]
ResultFound(i) == [type |-> "result_found", what |-> "result", idx |-> i]
Finished == [type |-> "finished", what |-> "none", idx |-> 0]

\* App.start_process, callback (lines 788-805): what each call schedules
\* with self.after(0, ...)
Scheduled(event) ==
    IF event.type = "status" THEN <<"set_status">>
    ELSE IF event.type = "result_found" THEN <<"add_result_card">>
    ELSE IF event.type = "finished" THEN <<"enable_button", "status_finished">>
    ELSE <<>>

RECURSIVE Callbacks(_)
Callbacks(evs) ==
    IF evs = <<>> THEN <<>> ELSE Scheduled(Head(evs)) \o Callbacks(Tail(evs))

\* progress_callback is called with each of evs; in a run started by
\* App.start_process the callback schedules the work on the main thread
Emit(evs) ==
    /\ events' = events \o evs
    /\ after_queue' = IF thread = "none" THEN after_queue
                      ELSE after_queue \o Callbacks(evs)

\* variant of Preconditions: the readiness of the engine is not checked
Preconditions_connectedOnly(connects, ready) == connects

\* lines 35-39: the source is connected (or connect succeeds) and the engine
\* is ready
Preconditions(connects, ready) == connects /\ ready

\* variant of ResultsAfter: a block that raises empties the list
ResultsAfter_resetOnError(list, i, selection, created) ==
    IF selection = None THEN list
    ELSE IF created THEN Append(list, i) ELSE <<>>

\* lines 60-63: the result of _process_block is appended when there is one;
\* when building it raised, nothing is appended
ResultsAfter(list, i, selection, created) ==
    IF selection # None /\ created THEN Append(list, i) ELSE list

\* variant of BlockEvents: no status for a block that raises
BlockEvents_quietOnRaise(i, outcome) ==
    IF outcome = "raised" THEN <<>>
    ELSE <<ProcessingBlock(i)>> \o
         (IF outcome = "match" THEN <<ResultFound(i)>> ELSE <<>>)

\* variant of BlockEvents: "result_found" is emitted ahead of the status of
\* its block
BlockEvents_resultFirst(i, outcome) ==
    (IF outcome = "match" THEN <<ResultFound(i)>> ELSE <<>>) \o
    <<ProcessingBlock(i)>>

\* lines 53-65: the status of block i, then "result_found" when a result
\* was appended
BlockEvents(i, outcome) ==
    <<ProcessingBlock(i)>> \o
    (IF outcome = "match" THEN <<ResultFound(i)>> ELSE <<>>)

\* variant of FinishEvents: the run ends without a terminal event
FinishEvents_none == <<>>

\* lines 78-79
FinishEvents == <<Finished>>

\* the smaller of two numbers
Min(a, b) == IF a < b THEN a ELSE b

\* variant of SourceAfterConnect: every call connects to its document
SourceAfterConnect_always(source, document_id) ==
    {[doc_id |-> document_id, _connected |-> TRUE]}

\* lines 35-36 with GoogleDocsClient.connect (lines 24-38): a connected
\* source is left as it is; otherwise connect raises before or after it has
\* stored the id, or it stores the id and connects
SourceAfterConnect(source, document_id) ==
    IF source._connected THEN {source}
    ELSE {source,
          [doc_id |-> document_id, _connected |-> FALSE],
          [doc_id |-> document_id, _connected |-> TRUE]}

\* analyze_document, lines 35-48: connect, readiness check, block
\* extraction, the first status. connect, the readiness check (a
\* RuntimeError) and extract_blocks (a ConnectionError) raise out of
\* analyze_document; in a thread of App.start_process that ends the thread.
\* extract_blocks reads the document the source holds (line 51).
\* used_frames_history is assigned in __init__ only: no line of
\* analyze_document resets it.
AnalyzeDocument ==
    /\ pc = "idle"
    /\ runs < MaxRuns
    /\ runs' = runs + 1
    /\ mode' = "none"
    /\ cands' = <<>>
    /\ sel' = None
    /\ results' = <<>>
    /\ idx' = 0
    /\ blockLog' = <<>>
    /\ \E document_id \in Documents :
       \E source \in SourceAfterConnect(document_source, document_id) :
       \E ready \in BOOLEAN : \E extracts \in BOOLEAN :
         /\ document_source' = source
         /\ IF Preconditions(source._connected, ready) /\ extracts
            THEN /\ pc' = "loop"
                 /\ \E n \in 0..Min(MaxBlocks, MaxUnique - Len(uniqueLog)) :
                      /\ total_blocks' = n
                      /\ events' = <<BlocksFound(n)>>
                      /\ after_queue' = IF thread = "none" THEN after_queue
                                        ELSE after_queue \o
                                             Callbacks(<<BlocksFound(n)>>)
                 /\ call' = [state |-> "running", connects |-> source._connected,
                             ready |-> ready, document_id |-> document_id,
                             extracted |-> source.doc_id]
                 /\ thread' = IF thread = "none" THEN "none" ELSE "running"
            ELSE /\ pc' = "idle"
                 /\ total_blocks' = 0
                 /\ events' = <<>>
                 /\ after_queue' = after_queue
                 /\ call' = [state |-> "raised", connects |-> source._connected,
                             ready |-> ready, document_id |-> document_id,
                             extracted |-> "none"]
                 /\ thread' = IF thread = "none" THEN "none" ELSE "dead"
    /\ UNCHANGED <<used_frames_history, uniqueLog, evars, btn_run, ui_status>>

\* what became of a block: a result appended, nothing selected, or an
\* exception caught by the except of lines 69-74
OutcomeOf(selection, created) ==
    IF selection = None THEN "nothing"
    ELSE IF created THEN "match" ELSE "raised"

\* One iteration of the loop of analyze_document (lines 50-74) on the
\* candidate list `list` returned in mode m: _process_block, then the
\* result is appended unless building it raised (created = FALSE).
BlockOutcome(m, list, created) ==
    LET selection == Selection(m, list, used_frames_history) IN
    /\ mode' = m
    /\ cands' = list
    /\ sel' = selection
    /\ used_frames_history' = HistoryAfter(m, selection, used_frames_history)
    /\ uniqueLog' = IF selection.kind = "unique"
                    THEN Append(uniqueLog, HistoryEntry(m, selection.unit))
                    ELSE uniqueLog
    /\ results' = ResultsAfter(results, idx + 1, selection, created)
    /\ blockLog' = Append(blockLog, OutcomeOf(selection, created))
    /\ Emit(BlockEvents(idx + 1, OutcomeOf(selection, created)))
    /\ pc' = "selected"

ProcessBlock ==
    /\ pc = "loop"
    /\ idx < total_blocks
    /\ idx' = idx + 1
    /\ \/ \E list \in RunSegmentLists : \E created \in BOOLEAN :
            BlockOutcome("segment", list, created)
       \/ \E list \in RunFrameLists : \E created \in BOOLEAN :
            BlockOutcome("frame", list, created)
       \/ /\ mode' = "none"     \* a search raised: caught, block skipped
          /\ cands' = <<>>
          /\ sel' = None
          /\ pc' = "loop"
          /\ blockLog' = Append(blockLog, "raised")
          /\ Emit(BlockEvents(idx + 1, "raised"))
          /\ UNCHANGED <<used_frames_history, uniqueLog, results>>
    /\ UNCHANGED <<total_blocks, runs, evars, call, thread, btn_run, ui_status,
                   document_source>>

\* analyze_document, lines 76-81: the loop is over, "finished", return
Finish ==
    /\ pc = "loop"
    /\ idx = total_blocks
    /\ pc' = "idle"
    /\ Emit(FinishEvents)
    /\ call' = [call EXCEPT !.state = "returned"]
    /\ thread' = "none"
    /\ UNCHANGED <<used_frames_history, idx, total_blocks, runs, mode, cands,
                   sel, results, uniqueLog, blockLog, evars, btn_run, ui_status,
                   document_source>>

NextRun == AnalyzeDocument \/ ProcessBlock \/ ReturnBlock \/ Finish

SpecRun == Init /\ [][NextRun]_vars

\* the caller's thread runs the loop to its end: every step of a run that
\* has begun is taken in the end; starting a run is up to the caller
SpecRunFair ==
    /\ SpecRun
    /\ WF_vars(ProcessBlock)
    /\ WF_vars(ReturnBlock)
    /\ WF_vars(Finish)

(* --- SpecUI: runs started with the run button of the App. The analysis   *)
(* runs in a background thread; its callback schedules the updates of the  *)
(* widgets on the main thread, which handles them in order.                *)

\* App.start_process, lines 756-786 and 807-810: without a document id, an
\* authenticated session or a service the status shows an error and nothing
\* starts; otherwise the button is disabled and the thread is started. A
\* disabled button cannot be pressed.
StartProcess ==
    /\ btn_run = "normal"
    /\ runs < MaxRuns
    /\ \E valid \in BOOLEAN :
         IF valid
         THEN /\ btn_run' = "disabled"
              /\ ui_status' = "starting"
              /\ thread' = "spawned"
         ELSE /\ ui_status' = "error"
              /\ UNCHANGED <<btn_run, thread>>
    /\ UNCHANGED <<svars, evars, events, blockLog, call, after_queue,
                   document_source>>

\* the thread of lines 807-810 enters analyze_document
WorkerStart ==
    /\ thread = "spawned"
    /\ AnalyzeDocument

\* the main thread runs the next scheduled callback (lines 791-805)
UI_After ==
    /\ after_queue # <<>>
    /\ after_queue' = Tail(after_queue)
    /\ btn_run' = IF Head(after_queue) = "enable_button" THEN "normal"
                  ELSE btn_run
    /\ ui_status' = IF Head(after_queue) = "set_status" THEN "progress"
                    ELSE IF Head(after_queue) = "status_finished" THEN "finished"
                    ELSE ui_status
    /\ UNCHANGED <<svars, evars, events, blockLog, call, thread, document_source>>

NextUI ==
    \/ StartProcess
    \/ WorkerStart
    \/ ProcessBlock
    \/ ReturnBlock
    \/ Finish
    \/ UI_After

SpecUI == Init /\ [][NextUI]_vars

\* a started thread runs, and the main loop of the App keeps handling the
\* scheduled callbacks; pressing the button is up to the user
SpecUIFair ==
    /\ SpecUI
    /\ WF_vars(WorkerStart)
    /\ WF_vars(ProcessBlock)
    /\ WF_vars(ReturnBlock)
    /\ WF_vars(Finish)
    /\ WF_vars(UI_After)

----------------------------------------------------------------------------
(* State machine of ClipSearchEngine: lazy initialisation, feedback        *)
(* recording, search scoring. One step per statement that reads or writes  *)
(* the shared store; record_feedback runs in threads of its own, while     *)
(* is_ready and search run in the analysis worker.                         *)

\* record_feedback lines 128-133, first statement of the branch taken
Discarded(fb, key, is_positive) ==
    IF is_positive
    THEN [fb EXCEPT !.negative = @ \ {key}]
    ELSE [fb EXCEPT !.positive = @ \ {key}]

\* variant of Added: the label is not added
Added_nothing(fb, key, is_positive) == fb

\* record_feedback lines 128-133, second statement of the branch taken
Added(fb, key, is_positive) ==
    IF is_positive
    THEN [fb EXCEPT !.positive = @ \cup {key}]
    ELSE [fb EXCEPT !.negative = @ \cup {key}]

\* _persist_feedback: the whole file is rewritten from both sets
_persist_feedback(fb) ==
    [exists |-> TRUE, positive |-> fb.positive, negative |-> fb.negative]

\* record_feedback is entered (lines 121-126): the key is computed
RF_Call(t) ==
    /\ rf[t].pc = "idle"
    /\ \E frame \in LibraryFrames : \E is_positive \in BOOLEAN :
         rf' = [rf EXCEPT ![t] = [pc |-> "lock", key |-> _feedback_key(frame),
                                  is_positive |-> is_positive]]
    /\ UNCHANGED <<feedback, feedback_lock, feedback_file, _initialized, ld, sr, svars, avars>>

\* variant of RF_Acquire: the with block does not wait for the lock
RF_Acquire_noLock(t) ==
    /\ rf[t].pc = "lock"
    /\ feedback_lock' = t
    /\ rf' = [rf EXCEPT ![t].pc = "discard"]
    /\ UNCHANGED <<feedback, feedback_file, _initialized, ld, sr, svars, avars>>

\* with self.feedback_lock (line 127)
RF_Acquire(t) ==
    /\ rf[t].pc = "lock"
    /\ feedback_lock = "free"
    /\ feedback_lock' = t
    /\ rf' = [rf EXCEPT ![t].pc = "discard"]
    /\ UNCHANGED <<feedback, feedback_file, _initialized, ld, sr, svars, avars>>

\* the discard of line 129 / 132
RF_Discard(t) ==
    /\ rf[t].pc = "discard"
    /\ feedback' = Discarded(feedback, rf[t].key, rf[t].is_positive)
    /\ rf' = [rf EXCEPT ![t].pc = "add"]
    /\ UNCHANGED <<feedback_lock, feedback_file, _initialized, ld, sr, svars, avars>>

\* the add of line 130 / 133
RF_Add(t) ==
    /\ rf[t].pc = "add"
    /\ feedback' = Added(feedback, rf[t].key, rf[t].is_positive)
    /\ rf' = [rf EXCEPT ![t].pc = "persist"]
    /\ UNCHANGED <<feedback_lock, feedback_file, _initialized, ld, sr, svars, avars>>

\* DocumentAnalysisService.record_feedback leaves its try block (lines
\* 301-305): True, or the exception is caught, the logger that
\* main.create_services passes gets a warning, and False is returned
Returned(locals, ok) ==
    [pc |-> "returned", unit |-> locals.unit, meta |-> locals.meta,
     is_positive |-> locals.is_positive, ok |-> ok, warned |-> ~ok]

\* variant of RF_Persist: a write that raises leaves the lock held
RF_Persist_keepLockOnFailure(t) ==
    /\ rf[t].pc = "persist"
    /\ \E written \in BOOLEAN :
         /\ feedback_file' = IF written THEN _persist_feedback(feedback)
                             ELSE feedback_file
         /\ feedback_lock' = IF written THEN "free" ELSE feedback_lock
         /\ rf' = [rf EXCEPT ![t] = RfIdle]
    /\ UNCHANGED <<feedback, _initialized, ld, sr, svars, avars>>

\* _persist_feedback (line 134) and the end of the with block: the file is
\* rewritten, or the write raises and the file stays; the lock is released
\* on both exits. The exception of a failed write leaves record_feedback;
\* in a thread that came through DocumentAnalysisService.record_feedback it
\* is caught there.
RF_Persist(t) ==
    /\ rf[t].pc = "persist"
    /\ \E written \in BOOLEAN :
         /\ feedback_file' = IF written THEN _persist_feedback(feedback)
                             ELSE feedback_file
         /\ rf' = [rf EXCEPT ![t] = IF "meta" \in DOMAIN rf[t]
                                    THEN Returned(rf[t], written)
                                    ELSE RfIdle]
    /\ feedback_lock' = "free"
    /\ UNCHANGED <<feedback, _initialized, ld, sr, svars, avars>>

\* the indexed segments: one whose first key frame lies at its midpoint, one
\* whose first key frame lies at its start, one without key frames
LibrarySegments ==
    { [video_filename |-> "a.mp4", start_time |-> 0, end_time |-> 2000,
       segment_id |-> "seg1",
       key_frames |-> <<[video_filename |-> "a.mp4", timestamp |-> 1000]>>],
      [video_filename |-> "a.mp4", start_time |-> 2000, end_time |-> 4000,
       segment_id |-> "seg2",
       key_frames |-> <<[video_filename |-> "a.mp4", timestamp |-> 2000],
                        [video_filename |-> "a.mp4", timestamp |-> 3000]>>],
      [video_filename |-> "b.mp4", start_time |-> 0, end_time |-> 2000,
       segment_id |-> "seg3", key_frames |-> <<>>] }

LibraryUnits == LibraryFrames \cup LibrarySegments

IsSegment(unit) == "segment_id" \in DOMAIN unit

\* _create_search_result / _create_search_result_from_segment followed by
\* _result_to_dict: the fields of the dictionary that feedback reads
\* (segment_id "" stands for None)
ResultDict(unit) ==
    IF IsSegment(unit)
    THEN [filename |-> unit.video_filename,
          timestamp |-> (unit.start_time + unit.end_time) \div 2,
          start_time |-> unit.start_time, end_time |-> unit.end_time,
          segment_id |-> unit.segment_id]
    ELSE [filename |-> unit.video_filename, timestamp |-> unit.timestamp,
          start_time |-> 0, end_time |-> 0, segment_id |-> ""]

\* App.add_result_card: the meta the card hands to handle_feedback
CardMeta(data) == [filename |-> data.filename, timestamp |-> data.timestamp]

\* record_feedback line 283
HasSegmentId(frame_meta) ==
    "segment_id" \in DOMAIN frame_meta /\ frame_meta.segment_id # ""

\* the key search (line 106) and search_segments (lines 291-292) look up
\* for a unit; a segment without key frames is looked up under no key
HasLookupKey(unit) == IsSegment(unit) => unit.key_frames # <<>>

LookupKey(unit) ==
    IF IsSegment(unit) THEN _feedback_key(unit.key_frames[1])
    ELSE _feedback_key(unit)

\* DocumentAnalysisService.record_feedback is called in a thread with the
\* dictionary of a match, as analysis emitted it or as the result card
\* kept it
Svc_Call(t) ==
    /\ rf[t].pc = "idle"
    /\ \E unit \in LibraryUnits : \E holder \in {"dict", "card"} :
       \E is_positive \in BOOLEAN :
         rf' = [rf EXCEPT ![t] =
                  [pc |-> "dispatch", unit |-> unit,
                   meta |-> IF holder = "card" THEN CardMeta(ResultDict(unit))
                            ELSE ResultDict(unit),
                   is_positive |-> is_positive]]
    /\ UNCHANGED <<feedback, feedback_lock, feedback_file, _initialized, ld, sr, svars, avars>>

\* lines 283-300. With a segment_id a VideoSegment is built with
\* key_frames=[] and record_segment_feedback returns at once (lines
\* 315-316); otherwise a VisualFrame is built from filename and timestamp
\* and ClipSearchEngine.record_feedback is entered with it.
Svc_Dispatch(t) ==
    /\ rf[t].pc = "dispatch"
    /\ rf' = [rf EXCEPT ![t] =
                IF HasSegmentId(rf[t].meta)
                THEN Returned(rf[t], TRUE)
                ELSE [pc |-> "lock",
                      key |-> _feedback_key(
                                 [video_filename |-> rf[t].meta.filename,
                                  timestamp |-> rf[t].meta.timestamp]),
                      is_positive |-> rf[t].is_positive,
                      unit |-> rf[t].unit, meta |-> rf[t].meta]]
    /\ UNCHANGED <<feedback, feedback_lock, feedback_file, _initialized, ld, sr, svars, avars>>

\* the worker of App.handle_feedback has its answer and ends
Svc_Return(t) ==
    /\ rf[t].pc = "returned"
    /\ rf' = [rf EXCEPT ![t] = RfIdle]
    /\ UNCHANGED <<feedback, feedback_lock, feedback_file, _initialized, ld, sr, svars, avars>>

\* is_ready on an engine not yet initialised enters _initialize and
\* _load_feedback (lines 57-60, 43-52, 188-191): os.path.exists
LD_Exists ==
    /\ ld.pc = "idle"
    /\ ~_initialized
    /\ ld' = IF feedback_file.exists THEN [pc |-> "read"]
             ELSE [pc |-> "finish"]
    /\ UNCHANGED <<feedback, feedback_lock, feedback_file, _initialized, rf, sr, svars, avars>>

\* lines 194-195: the file is read into data; an exception of json.load is
\* swallowed by the except of lines 198-199
LD_Read ==
    /\ ld.pc = "read"
    /\ ld' = IF JsonLoads(feedback_file)
             THEN [pc |-> "assign_positive", data |-> feedback_file]
             ELSE [pc |-> "finish"]
    /\ UNCHANGED <<feedback, feedback_lock, feedback_file, _initialized, rf, sr, svars, avars>>

\* line 196: self.feedback["positive"] = set(data.get("positive", []))
\* (set() raising leaves the try block: except, pass)
LD_AssignPositive ==
    /\ ld.pc = "assign_positive"
    /\ IF IsScalar(ld.data, "positive")
       THEN /\ feedback' = feedback
            /\ ld' = [pc |-> "finish"]
       ELSE /\ feedback' = [feedback EXCEPT !.positive = ld.data.positive]
            /\ ld' = [ld EXCEPT !.pc = "assign_negative"]
    /\ UNCHANGED <<feedback_lock, feedback_file, _initialized, rf, sr, svars, avars>>

\* line 197: self.feedback["negative"] = set(data.get("negative", []))
\* (set() raising leaves the try block: except, pass)
LD_AssignNegative ==
    /\ ld.pc = "assign_negative"
    /\ feedback' = IF IsScalar(ld.data, "negative") THEN feedback
                   ELSE [feedback EXCEPT !.negative = ld.data.negative]
    /\ ld' = [pc |-> "finish"]
    /\ UNCHANGED <<feedback_lock, feedback_file, _initialized, rf, sr, svars, avars>>

\* lines 53-55: the embeddings are loaded, self._initialized = True
LD_Finish ==
    /\ ld.pc = "finish"
    /\ _initialized' = TRUE
    /\ ld' = [pc |-> "ready"]
    /\ UNCHANGED <<feedback, feedback_lock, feedback_file, rf, sr, svars, avars>>

\* variant of Clamp: the upper bound is missing (max(0.0, score))
Clamp_noUpper(score) == IF score > 0 THEN score ELSE 0

\* max(0.0, min(score, 1.0)), scores in hundredths
Clamp(score) ==
    LET low == IF score < 100 THEN score ELSE 100 IN
    IF low > 0 THEN low ELSE 0

\* variant of TimesNegative: the negative label doubles the score
TimesNegative_boost(score) == score * 2

\* score *= 0.2 (line 108); exact on the raw scores of the model
TimesNegative(score) == (score * 2) \div 10

\* score *= 1.25 (line 110); exact on the raw scores of the model
TimesPositive(score) == (score * 125) \div 100

\* combined scores the hits are given before the feedback adjustment
RawScores == {-20, 40, 100}

\* the results list of search (lines 93-102): each frame at most once
RawResults ==
    UNION {
        {l \in [1..n -> [frame : LibraryFrames, score : RawScores]] :
            \A i \in 1..n : \A j \in 1..n : i # j => l[i].frame # l[j].frame} :
        n \in 0..MaxHits }

\* one step of list.sort(key=score, reverse=True): insert keeping the order
\* of equal scores (the sort is stable)
RECURSIVE InsertByScore(_, _)
InsertByScore(sorted, item) ==
    IF sorted = <<>> THEN <<item>>
    ELSE IF Head(sorted).score >= item.score
         THEN <<Head(sorted)>> \o InsertByScore(Tail(sorted), item)
         ELSE <<item>> \o sorted

\* variant of SortByScore: the list is returned in the order of the hits
SortByScore_unsorted(list) == list

RECURSIVE SortByScore(_)
SortByScore(list) ==
    IF list = <<>> THEN <<>>
    ELSE InsertByScore(SortByScore(SubSeq(list, 1, Len(list) - 1)), list[Len(list)])

\* adjusted[:limit]
Limit(list, limit) == SubSeq(list, 1, IF Len(list) < limit THEN Len(list) ELSE limit)

\* the adjusted pair is appended (line 116) and the loop moves on
SrAppend(state, score) ==
    LET adjusted == Append(state.adjusted,
                           [frame |-> state.results[state.i].frame,
                            score |-> Clamp(score)])
    IN [state EXCEPT !.adjusted = adjusted,
                     !.i = @ + 1,
                     !.pc = IF state.i < Len(state.results)
                            THEN "read_negative" ELSE "sort"]

\* search on a ready engine up to the adjustment loop (lines 66-102), the
\* aggregated hits being one of ResultLists
SR_StartWith(ResultLists) ==
    /\ sr.pc = "idle"
    /\ _initialized
    /\ \E hits \in ResultLists :
         sr' = [pc |-> IF hits = <<>> THEN "sort" ELSE "read_negative",
                results |-> hits, i |-> 1, adjusted |-> <<>>]
    /\ UNCHANGED <<feedback, feedback_lock, feedback_file, _initialized, rf, ld, svars, avars>>

SR_Start == SR_StartWith(RawResults)

\* lines 106-108: if key in self.feedback["negative"]: score *= 0.2
SR_ReadNegative ==
    /\ sr.pc = "read_negative"
    /\ LET hit == sr.results[sr.i] IN
       sr' = IF _feedback_key(hit.frame) \in feedback.negative
             THEN SrAppend(sr, TimesNegative(hit.score))
             ELSE [sr EXCEPT !.pc = "read_positive"]
    /\ UNCHANGED <<feedback, feedback_lock, feedback_file, _initialized, rf, ld, svars, avars>>

\* lines 109-110: elif key in self.feedback["positive"]: score *= 1.25
SR_ReadPositive ==
    /\ sr.pc = "read_positive"
    /\ LET hit == sr.results[sr.i] IN
       sr' = IF _feedback_key(hit.frame) \in feedback.positive
             THEN SrAppend(sr, TimesPositive(hit.score))
             ELSE SrAppend(sr, hit.score)
    /\ UNCHANGED <<feedback, feedback_lock, feedback_file, _initialized, rf, ld, svars, avars>>

\* lines 118-119: adjusted.sort(..., reverse=True); return adjusted[:limit]
SR_Sort ==
    /\ sr.pc = "sort"
    /\ sr' = [pc |-> "done", results |-> sr.results,
              out |-> Limit(SortByScore(sr.adjusted), SearchLimit)]
    /\ UNCHANGED <<feedback, feedback_lock, feedback_file, _initialized, rf, ld, svars, avars>>

\* the caller has consumed the list
SR_Return ==
    /\ sr.pc = "done"
    /\ sr' = SrIdle
    /\ UNCHANGED <<feedback, feedback_lock, feedback_file, _initialized, rf, ld, svars, avars>>

\* a new session: the engine is constructed over the feedback file an
\* earlier session left (or none)
InitEngine ==
    ServiceInit /\ EngineInit /\ AppInit /\ feedback_file \in PersistedStates

(* --- SpecEngine: feedback recording from two threads and the lazy load *)

NextEngine ==
    \/ \E t \in Threads : RF_Call(t)
    \/ \E t \in Threads : RF_Acquire(t)
    \/ \E t \in Threads : RF_Discard(t)
    \/ \E t \in Threads : RF_Add(t)
    \/ \E t \in Threads : RF_Persist(t)
    \/ LD_Exists
    \/ LD_Read
    \/ LD_AssignPositive
    \/ LD_AssignNegative
    \/ LD_Finish

SpecEngine == InitEngine /\ [][NextEngine]_vars

(* --- SpecSearch: search scoring in the worker, one feedback thread *)

NextSearch ==
    \/ RF_Call("ui1")
    \/ RF_Acquire("ui1")
    \/ RF_Discard("ui1")
    \/ RF_Add("ui1")
    \/ RF_Persist("ui1")
    \/ LD_Exists
    \/ LD_Read
    \/ LD_AssignPositive
    \/ LD_AssignNegative
    \/ LD_Finish
    \/ SR_Start
    \/ SR_ReadNegative
    \/ SR_ReadPositive
    \/ SR_Sort
    \/ SR_Return

SpecSearch == InitEngine /\ [][NextSearch]_vars

(* --- SpecAdjust: the adjustment loop alone, on one hit whose combined   *)
(* score ranges from below 0 to above 1, in an engine that has loaded the  *)
(* feedback of an earlier session and records none meanwhile.              *)

\* combined scores from -0.4 to 0.2 * MaxRawStep in steps of 0.2, on which
\* both multiplications are exact in hundredths
WideRawScores == {20 * k : k \in -2..MaxRawStep}

WideRawResults ==
    {<<[frame |-> f, score |-> s]>> : f \in LibraryFrames, s \in WideRawScores}

\* _load_feedback completed on the file of an earlier session
Loaded(file) ==
    IF file.exists
    THEN [positive |-> file.positive, negative |-> file.negative]
    ELSE NoFeedback

InitAdjust ==
    /\ ServiceInit
    /\ AppInit
    /\ feedback_file \in PersistedStates
    /\ feedback = Loaded(feedback_file)
    /\ feedback_lock = "free"
    /\ _initialized = TRUE
    /\ rf = [t \in Threads |-> RfIdle]
    /\ ld = [pc |-> "ready"]
    /\ sr = SrIdle

SR_StartWide == SR_StartWith(WideRawResults)

NextAdjust ==
    \/ SR_StartWide
    \/ SR_ReadNegative
    \/ SR_ReadPositive
    \/ SR_Sort
    \/ SR_Return

SpecAdjust == InitAdjust /\ [][NextAdjust]_vars

(* --- SpecLoad: the first initialisation of an engine constructed over    *)
(* any feedback file, well formed or not; nothing is recorded meanwhile.   *)

InitLoad ==
    /\ ServiceInit
    /\ AppInit
    /\ EngineInit
    /\ feedback_file \in {NoFile} \cup WellFormedFiles \cup MalformedFiles

NextLoad ==
    \/ LD_Exists
    \/ LD_Read
    \/ LD_AssignPositive
    \/ LD_AssignNegative
    \/ LD_Finish

SpecLoad == InitLoad /\ [][NextLoad]_vars

(* --- SpecFeedback: feedback on the matches of an analysis, given through *)
(* DocumentAnalysisService.record_feedback, one card at a time, in an engine*)
(* that a search has initialised (matches exist only after a search).      *)

NextFeedback ==
    \/ Svc_Call("ui1")
    \/ Svc_Dispatch("ui1")
    \/ RF_Acquire("ui1")
    \/ RF_Discard("ui1")
    \/ RF_Add("ui1")
    \/ RF_Persist("ui1")
    \/ Svc_Return("ui1")

\* the first session: no feedback file, the engine initialised by a search
InitFeedback ==
    /\ InitAdjust
    /\ feedback_file = NoFile

SpecFeedback == InitFeedback /\ [][NextFeedback]_vars

(* --- SpecCrash: one feedback thread with _persist_feedback step by step, *)
(* in a process that can be killed at any point (the feedback threads are  *)
(* daemon threads, so closing the App ends them wherever they are); the    *)
(* next session constructs a new engine over the file that was left.       *)

\* what open(self.feedback_file, "w") leaves before json.dump has written
\* and the file is closed: an empty or partial file, which json.load rejects
TruncatedFile == CorruptFile

\* variant of Opened: the old file stays in place until the new content is
\* complete (the content is written elsewhere and moved over the file)
Opened_keep(file) == file

\* line 208: open(..., "w") truncates the file
Opened(file) == TruncatedFile

\* _persist_feedback up to the open of line 208, or an exception of
\* makedirs / open, which leaves the file alone and releases the lock
RF_Open(t) ==
    /\ rf[t].pc = "persist"
    /\ \/ /\ feedback_file' = Opened(feedback_file)
          /\ rf' = [rf EXCEPT ![t].pc = "write"]
          /\ UNCHANGED feedback_lock
       \/ /\ rf' = [rf EXCEPT ![t] = RfIdle]
          /\ feedback_lock' = "free"
          /\ UNCHANGED feedback_file
    /\ UNCHANGED <<feedback, _initialized, ld, sr, svars, avars>>

\* line 209 and the end of both with blocks: json.dump has written both
\* lists, the file is closed, the lock is released
RF_Write(t) ==
    /\ rf[t].pc = "write"
    /\ feedback_file' = _persist_feedback(feedback)
    /\ rf' = [rf EXCEPT ![t] = RfIdle]
    /\ feedback_lock' = "free"
    /\ UNCHANGED <<feedback, _initialized, ld, sr, svars, avars>>

\* the process ends and is started again: ClipSearchEngine.__init__ (lines
\* 16-41) over the file as it is
Crash ==
    /\ feedback' = NoFeedback
    /\ feedback_lock' = "free"
    /\ _initialized' = FALSE
    /\ rf' = [t \in Threads |-> RfIdle]
    /\ ld' = LdIdle
    /\ sr' = SrIdle
    /\ UNCHANGED <<feedback_file, svars, avars>>

\* _load_feedback as a whole (lines 188-199) on a file a session left: what
\* the store holds once a new engine is initialised over the file
LoadedAtStart(file) ==
    IF file.exists /\ ~JsonLoads(file) THEN NoFeedback ELSE Loaded(file)

NextCrash ==
    \/ RF_Call("ui1")
    \/ RF_Acquire("ui1")
    \/ RF_Discard("ui1")
    \/ RF_Add("ui1")
    \/ RF_Open("ui1")
    \/ RF_Write("ui1")
    \/ Crash
    \/ LD_Exists
    \/ LD_Read
    \/ LD_AssignPositive
    \/ LD_AssignNegative
    \/ LD_Finish

SpecCrash == InitEngine /\ [][NextCrash]_vars

(* --- SpecSerial: record_feedback from two threads of App.handle_feedback *)
(* on an engine that has completed its load, with a disk on which every    *)
(* write succeeds.                                                         *)

\* _persist_feedback when the write does not raise
RF_PersistWritten(t) ==
    /\ RF_Persist(t)
    /\ feedback_file' = _persist_feedback(feedback)

NextSerial ==
    \/ \E t \in Threads : RF_Call(t)
    \/ \E t \in Threads : RF_Acquire(t)
    \/ \E t \in Threads : RF_Discard(t)
    \/ \E t \in Threads : RF_Add(t)
    \/ \E t \in Threads : RF_PersistWritten(t)

SpecSerial == InitAdjust /\ [][NextSerial]_vars

(* --- SpecRank: search and search_segments from the hits of the two       *)
(* queries to the returned list, on an engine that has loaded the feedback *)
(* of an earlier session and records none meanwhile.                       *)

\* the hits of one semantic_search query: corpus entries in the order of
\* the hits, each entry once
HitLists(Units) ==
    UNION {
        {l \in [1..n -> Units] :
            \A i \in 1..n : \A j \in 1..n : i # j => l[i] # l[j]} :
        n \in 0..MaxRankHits }

\* _merge_hits / _merge_segment_hits for the text query, then for the tag
\* query: storage.setdefault(idx, ...) keeps one entry per corpus index, in
\* the order of first appearance
MergeHits(text_hits, tag_hits) ==
    text_hits \o
    SelectSeq(tag_hits,
              LAMBDA u : \A i \in 1..Len(text_hits) : text_hits[i] # u)

MergedLists(Units) ==
    {MergeHits(text_hits, tag_hits) :
        text_hits \in HitLists(Units), tag_hits \in HitLists(Units)}

\* the results list of search (lines 93-102): the merged entries, each with
\* its combined score
RankFrameResults ==
    UNION {
        {[i \in 1..Len(m) |-> [frame |-> m[i], score |-> combined[i]]] :
            combined \in [1..Len(m) -> RawScores]} :
        m \in MergedLists(LibraryFrames) }

\* the results list of search_segments (lines 279-288)
RankSegmentResults ==
    UNION {
        {[i \in 1..Len(m) |-> [segment |-> m[i], score |-> combined[i]]] :
            combined \in [1..Len(m) -> RawScores]} :
        m \in MergedLists(LibrarySegments) }

SR_StartRank == SR_StartWith(RankFrameResults)

\* search_segments on a ready engine up to the adjustment loop (lines
\* 255-288)
SS_Start ==
    /\ sr.pc = "idle"
    /\ _initialized
    /\ \E hits \in RankSegmentResults :
         sr' = [pc |-> IF hits = <<>> THEN "sort" ELSE "adjust_segment",
                results |-> hits, i |-> 1, adjusted |-> <<>>]
    /\ UNCHANGED <<feedback, feedback_lock, feedback_file, _initialized, rf, ld, svars, avars>>

\* lines 291-296 on a segment and its combined score
AdjustedSegmentScore(segment, score, fb) ==
    IF segment.key_frames # <<>>
    THEN IF _feedback_key(segment.key_frames[1]) \in fb.negative
         THEN TimesNegative(score)
         ELSE IF _feedback_key(segment.key_frames[1]) \in fb.positive
              THEN TimesPositive(score)
              ELSE score
    ELSE score

\* one iteration of the loop of lines 290-299
SS_Adjust ==
    /\ sr.pc = "adjust_segment"
    /\ LET hit == sr.results[sr.i] IN
       sr' = [sr EXCEPT
                !.adjusted = Append(@,
                    [segment |-> hit.segment,
                     score |-> Clamp(AdjustedSegmentScore(hit.segment, hit.score,
                                                          feedback))]),
                !.i = @ + 1,
                !.pc = IF sr.i < Len(sr.results) THEN "adjust_segment" ELSE "sort"]
    /\ UNCHANGED <<feedback, feedback_lock, feedback_file, _initialized, rf, ld, svars, avars>>

NextRank ==
    \/ SR_StartRank
    \/ SR_ReadNegative
    \/ SR_ReadPositive
    \/ SS_Start
    \/ SS_Adjust
    \/ SR_Sort
    \/ SR_Return

SpecRank == InitAdjust /\ [][NextRank]_vars

(* --- SpecRead: a search in the analysis worker while one thread of       *)
(* App.handle_feedback records feedback, on an engine that has completed   *)
(* its load and with writes that succeed: whenever the lock is free the    *)
(* file holds the in-memory sets, so during a call it holds the labels as  *)
(* they were before the call.                                              *)

NextRead ==
    \/ RF_Call("ui1")
    \/ RF_Acquire("ui1")
    \/ RF_Discard("ui1")
    \/ RF_Add("ui1")
    \/ RF_PersistWritten("ui1")
    \/ SR_Start
    \/ SR_ReadNegative
    \/ SR_ReadPositive
    \/ SR_Sort
    \/ SR_Return

SpecRead == InitAdjust /\ [][NextRead]_vars

(* --- SpecLock: record_feedback from two threads on an engine that has    *)
(* completed its load, on a disk whose writes can fail.                    *)

NextLock ==
    \/ \E t \in Threads : RF_Call(t)
    \/ \E t \in Threads : RF_Acquire(t)
    \/ \E t \in Threads : RF_Discard(t)
    \/ \E t \in Threads : RF_Add(t)
    \/ \E t \in Threads : RF_Persist(t)

SpecLock == InitAdjust /\ [][NextLock]_vars

\* a thread inside record_feedback keeps running, and a thread that waits
\* for the lock is not passed over for ever when the lock is released again
\* and again; whether feedback is given at all is up to the user
SpecLockFair ==
    /\ SpecLock
    /\ \A t \in Threads :
          /\ SF_vars(RF_Acquire(t))
          /\ WF_vars(RF_Discard(t))
          /\ WF_vars(RF_Add(t))
          /\ WF_vars(RF_Persist(t))

----------------------------------------------------------------------------
(* Vocabulary of the properties *)

Range(seq) == {seq[i] : i \in 1..Len(seq)}

MinOf(S) == CHOOSE x \in S : \A y \in S : x <= y

\* the representative timestamp of a unit, without the division of
\* get_middle_timestamp: the t with 2t = start + end
RepresentativeTime(m, unit) ==
    IF m = "segment"
    THEN CHOOSE t \in 0..(2 * MaxTime) : 2 * t = unit.start_time + unit.end_time
    ELSE unit.timestamp

\* the history holds an entry of the same video strictly closer than
\* time_window to the unit's representative timestamp
NearInHistory(m, unit, history) ==
    \E d \in (1 - time_window)..(time_window - 1) :
        <<unit.video_filename, RepresentativeTime(m, unit) + d>> \in Range(history)

\* positions of the candidates that clear the threshold and are fresh
Qualifying(m, list, history) ==
    {i \in 1..Len(list) :
        /\ list[i].score >= score_threshold
        /\ ~NearInHistory(m, list[i].unit, history)}

Selecting == pc = "searched" /\ pc' = "selected"

\* C1: Plan A: on a ranked candidate list with at least one candidate that
\* clears the threshold and is not a duplicate of the current history, the
\* selection is the first such candidate in list order, with its own score,
\* as a unique match (not taken as a duplicate), in both search modes.
C1_PlanAFirstFresh ==
    [][Selecting =>
        LET Q == Qualifying(mode, cands, used_frames_history) IN
        Q # {} =>
            sel' = [kind |-> "unique",
                    unit |-> cands[MinOf(Q)].unit,
                    score |-> cands[MinOf(Q)].score]]_vars

\* a fresh second candidate was preferred to a higher-ranked duplicate
C1_Witness ==
    /\ pc = "selected"
    /\ mode = "frame"
    /\ Len(cands) >= 2
    /\ cands[1].score >= score_threshold
    /\ sel.kind = "unique"
    /\ sel.unit = cands[2].unit
    /\ sel.score = cands[2].score

\* C2: Plan B: on a non-empty list whose top candidate clears the threshold
\* while no candidate that clears it is fresh, the selection is exactly the
\* top candidate with its score, taken as a duplicate.
C2_PlanBTopDuplicate ==
    [][Selecting =>
        ((/\ cands # <<>>
          /\ Qualifying(mode, cands, used_frames_history) = {}
          /\ cands[1].score >= score_threshold)
         => sel' = [kind |-> "duplicate",
                    unit |-> cands[1].unit,
                    score |-> cands[1].score])]_vars

\* the only segment candidate was a duplicate and was taken as plan B
C2_Witness ==
    /\ pc = "selected"
    /\ mode = "segment"
    /\ cands # <<>>
    /\ sel.kind = "duplicate"
    /\ sel.unit = cands[1].unit
    /\ used_frames_history # <<>>

\* C3: the selection returns nothing exactly when the list is empty or its
\* top candidate is below the threshold; so every selection returned, plan A
\* or plan B, has a score of at least score_threshold.
C3_NothingIffBelowThreshold ==
    pc = "selected" =>
        /\ (sel = None) <=> (cands = <<>> \/ cands[1].score < score_threshold)
        /\ sel # None => sel.score >= score_threshold

\* nothing was selected from a non-empty list
C3_Witness ==
    /\ pc = "selected"
    /\ cands # <<>>
    /\ sel = None

\* C4: threshold inclusivity: a candidate whose score equals score_threshold
\* is not cut off by the scan (it is selected as plan A when it is the first
\* fresh candidate) and passes the plan-B test (a top candidate at the
\* threshold is taken as a duplicate when nothing is fresh).
C4_ThresholdInclusive ==
    [][Selecting =>
        LET Q == Qualifying(mode, cands, used_frames_history) IN
        /\ (Q # {} /\ cands[MinOf(Q)].score = score_threshold)
              => (sel'.kind = "unique" /\ sel'.unit = cands[MinOf(Q)].unit
                  /\ sel'.score = score_threshold)
        /\ (cands # <<>> /\ Q = {} /\ cands[1].score = score_threshold)
              => (sel'.kind = "duplicate" /\ sel'.unit = cands[1].unit
                  /\ sel'.score = score_threshold)]_vars

\* a frame scoring exactly the threshold was selected as plan A
C4_Witness ==
    /\ pc = "selected"
    /\ mode = "frame"
    /\ sel.kind = "unique"
    /\ sel.score = score_threshold

\* C5: duplicates never extend the history: a step that changes the history
\* is the selection step of a unique (plan-A) match; after a plan-B
\* duplicate or no selection the history is what it was.
C5_OnlyUniqueExtends ==
    [][used_frames_history' # used_frames_history
          => (Selecting /\ sel'.kind = "unique")]_vars

\* a duplicate was taken while the history was not empty
C5_Witness ==
    /\ pc = "selected"
    /\ sel.kind = "duplicate"
    /\ Len(used_frames_history) > 0

\* C6: after n unique selections the history holds exactly the last
\* min(n, history_size) selected (video_filename, timestamp) pairs, in
\* selection order, and is never longer than history_size.
C6_HistoryIsLastSelections ==
    LET n == Len(uniqueLog)
        k == IF n < history_size THEN n ELSE history_size
    IN /\ Len(used_frames_history) = k
       /\ Len(used_frames_history) <= history_size
       /\ used_frames_history = SubSeq(uniqueLog, n - k + 1, n)

\* more unique selections than the history holds: the oldest was evicted
C6_Witness ==
    /\ Len(uniqueLog) > history_size
    /\ Len(used_frames_history) = history_size

C8_HistoryResetPerRun ==
    (pc = "loop" /\ idx = 0) => used_frames_history = <<>>

\* C9: feedback exclusivity: in every reachable state of the engine no key
\* is in both the positive and the negative set.
C9_FeedbackExclusive ==
    feedback.positive \cap feedback.negative = {}

\* the adjusted score, in hundredths, that a raw score gets under a label:
\* the a in 0..100 with 20a = 4 raw (negative), 25 raw (positive) or
\* 20 raw (no feedback), cut to the ends of the range
ExpectedAdjusted(raw, label) ==
    LET m == IF label = "negative" THEN 4 * raw
             ELSE IF label = "positive" THEN 25 * raw
             ELSE 20 * raw
    IN CHOOSE a \in 0..100 :
          \/ m <= 0 /\ a = 0
          \/ m >= 2000 /\ a = 100
          \/ 0 < m /\ m < 2000 /\ 20 * a = m

NeutralScore(raw) == IF raw < 0 THEN 0 ELSE IF raw > 100 THEN 100 ELSE raw

\* C11: feedback monotonicity: whatever the raw combined score (below 0 and
\* above 1 included), the adjusted score lies in [0,1]; with positive
\* feedback it is at least the adjusted score the same raw score has with
\* no feedback, with negative feedback at most that, and with no feedback
\* equal to it.
C11_FeedbackMonotone ==
    (sr.pc = "sort" /\ Len(sr.adjusted) = 1) =>
        LET raw == sr.results[1].score
            key == _feedback_key(sr.results[1].frame)
            adjusted == sr.adjusted[1].score
        IN /\ adjusted \in 0..100
           /\ key \in feedback.negative => adjusted <= NeutralScore(raw)
           /\ (key \in feedback.positive /\ key \notin feedback.negative)
                => adjusted >= NeutralScore(raw)
           /\ (key \notin feedback.positive /\ key \notin feedback.negative)
                => adjusted = NeutralScore(raw)

\* a raw score of 0.6 with positive feedback was raised to 0.75
C11_Witness ==
    /\ sr.pc = "sort"
    /\ Len(sr.adjusted) = 1
    /\ sr.results[1].score = 60
    /\ sr.adjusted[1].score = 75
    /\ _feedback_key(sr.results[1].frame) \in feedback.positive

\* the set a label is recorded in
LabelSet(fb, is_positive) == IF is_positive THEN fb.positive ELSE fb.negative

\* C12: feedback improves the ranking of the rated match: when
\* DocumentAnalysisService.record_feedback returns True for the dictionary
\* of a match, the key the next search looks up for that unit is in the set
\* of the given label; for frames and for segments, with or without
\* segment_id in the dictionary.
C12_FeedbackReachesLookup ==
    [][\A t \in Threads :
         (rf[t].pc # "returned" /\ rf'[t].pc = "returned" /\ rf'[t].ok) =>
            /\ HasLookupKey(rf'[t].unit)
            /\ LookupKey(rf'[t].unit)
                 \in LabelSet(feedback', rf'[t].is_positive)]_vars

\* C19: feedback persistence failure is best effort: when the write of the
\* feedback file fails inside record_feedback, the key carries the new label
\* in memory afterwards, the file is as it was, the lock is free, and the
\* caller gets False with a warning logged instead of an exception.
C19_PersistFailureBestEffort ==
    [][\A t \in Threads :
         (rf[t].pc = "persist" /\ rf'[t].pc = "returned" /\ ~rf'[t].ok) =>
            /\ rf[t].key \in LabelSet(feedback', rf[t].is_positive)
            /\ rf[t].key \notin LabelSet(feedback', ~rf[t].is_positive)
            /\ feedback_file' = feedback_file
            /\ feedback_lock' = "free"
            /\ rf'[t].warned]_vars

\* a recording whose write failed has returned False: the key is in the
\* positive set in memory and not in the file
C19_Witness ==
    \E t \in Threads :
        /\ rf[t].pc = "returned"
        /\ ~rf[t].ok
        /\ rf[t].is_positive
        /\ LookupKey(rf[t].unit) \in feedback.positive
        /\ (feedback_file.exists => LookupKey(rf[t].unit) \notin feedback_file.positive)

\* the file exists and is not an object with two lists
Malformed(file) ==
    file.exists /\ (~JsonLoads(file) \/ "scalar" \in DOMAIN file)

\* C20: malformed persisted feedback fails open to empty: once the load of
\* a malformed feedback file is over, the positive and the negative set are
\* both empty (the load itself never raises: every exception is swallowed).
C20_MalformedLoadsEmpty ==
    (Malformed(feedback_file) /\ ld.pc \in {"finish", "ready"}) =>
        feedback = NoFeedback

\* C18: segment mode is exclusive per block: a non-empty list returned by
\* search_segments goes to the selection as it is, with no frame search for
\* the block, and the block's outcome is nothing or one of its segments
\* (nothing exactly when its best score is below the threshold); the frame
\* search runs exactly when search_segments returned the empty list.
C18_SegmentModeExclusive ==
    [][/\ (pc = "segments" /\ cands # <<>>) =>
            (pc' = "searched" /\ mode' = "segment" /\ cands' = cands)
       /\ (pc = "segments" /\ cands = <<>>) =>
            (mode' = "frame" \/ pc' = "loop")
       /\ (Selecting /\ mode = "segment") =>
            /\ cands \in SegmentLists
            /\ sel' = None <=> cands[1].score < score_threshold
            /\ sel' # None =>
                 \E i \in 1..Len(cands) : sel'.unit = cands[i].unit]_vars

\* every segment candidate was below the threshold: nothing was selected and
\* the list is still the segment list
C18_Witness ==
    /\ pc = "selected"
    /\ mode = "segment"
    /\ cands \in SegmentLists
    /\ \A i \in 1..Len(cands) : cands[i].score < score_threshold
    /\ sel = None

\* the indices of the blocks of log with a given outcome, in order
BlocksWith(log, outcome) ==
    LET Is(i) == log[i] = outcome
    IN SelectSeq([i \in 1..Len(log) |-> i], Is)

\* the indices carried by the per-block status events of evs, in order
StatusIndices(evs) ==
    LET IsBlockStatus(e) == e.type = "status" /\ e.what = "processing_block"
        statuses == SelectSeq(evs, IsBlockStatus)
    IN [i \in 1..Len(statuses) |-> statuses[i].idx]

FinishedLast == events # <<>> /\ events[Len(events)] = Finished

\* C13: per-block failure isolation: an exception raised while a block is
\* processed does not leave analyze_document (a call that raised has
\* processed no block); the blocks processed are those started, all of them
\* once the call has returned; and the results are exactly the blocks whose
\* selection succeeded and whose record was built, in order.
C13_BlockFailureIsolated ==
    /\ call.state = "raised" => blockLog = <<>>
    /\ call.state \in {"running", "returned"} =>
         /\ Len(blockLog) = idx
         /\ results = BlocksWith(blockLog, "match")
    /\ call.state = "returned" => Len(blockLog) = total_blocks

\* a run has returned in which the first block raised and the second gave a
\* result
C13_Witness ==
    /\ call.state = "returned"
    /\ Len(blockLog) = 2
    /\ blockLog[1] = "raised"
    /\ blockLog[2] = "match"
    /\ results = <<2>>

\* C14 (as stated): every analyze_document call eventually emits
\* "finished": the r-th call, once made, leads to its "finished" event.
C14_EveryCallFinishes ==
    \A r \in 1..MaxRuns : (runs = r) ~> (runs = r /\ FinishedLast)

\* C14 (amended): every analyze_document call that passes its precondition
\* checks and extracts the blocks returns in the end, even if every block
\* failed; a call that has returned has emitted "finished"; and "finished"
\* is emitted once, as the last event, by no call that has not returned.
C14_FinishedOnceLast ==
    /\ [](\A i \in 1..Len(events) :
            events[i] = Finished => (i = Len(events) /\ call.state = "returned"))
    /\ [](call.state = "returned" => FinishedLast)
    /\ (call.state = "running") ~> (call.state = "returned")

\* a run of two blocks that both raised has emitted "finished"
C14_Witness ==
    /\ call.state = "returned"
    /\ blockLog = <<"raised", "raised">>
    /\ results = <<>>
    /\ FinishedLast

\* C15: progress reporting: the per-block status events emitted so far
\* carry the indices 1..idx, once each and in increasing order, whatever the
\* outcome of the blocks; when the call has returned that is 1..n.
C15_ProgressPerBlock ==
    call.state \in {"running", "returned"} =>
        /\ StatusIndices(events) = [i \in 1..idx |-> i]
        /\ call.state = "returned" => idx = total_blocks

\* a run has returned whose first block raised and whose second did not,
\* with the status of both emitted
C15_Witness ==
    /\ call.state = "returned"
    /\ total_blocks = 2
    /\ blockLog[1] = "raised"
    /\ blockLog[2] # "raised"
    /\ StatusIndices(events) = <<1, 2>>

\* C16: precondition failure is fatal and leaves no partial run: a call
\* that finds the source not connectable or the engine not ready raises
\* with no block processed, no event emitted, no result, and the history
\* as it was; nothing follows a call that raised.
C16_PreconditionFailureFatal ==
    /\ [](call.state = "raised" =>
            /\ events = <<>>
            /\ blockLog = <<>>
            /\ results = <<>>
            /\ pc = "idle"
            /\ idx = 0)
    /\ [][(runs' # runs /\ (~call'.connects \/ ~call'.ready)) =>
            /\ call'.state = "raised"
            /\ used_frames_history' = used_frames_history
            /\ after_queue' = after_queue]_vars

\* a call on a service whose history is not empty raised because the engine
\* was not ready
C16_Witness ==
    /\ call.state = "raised"
    /\ call.connects
    /\ ~call.ready
    /\ used_frames_history # <<>>
    /\ events = <<>>

\* C17: a run started from the UI never leaves the UI stuck: once the
\* thread of start_process is started, the UI reaches the finished state or
\* an error state with the run button enabled again.
C17_UiNeverStuck ==
    (thread = "spawned") ~>
        (btn_run = "normal" /\ ui_status \in {"finished", "error"})

\* C21: crash safety of the feedback file: at whatever point of
\* record_feedback the process ends, the next start loads from the file
\* either the complete state before the event or the complete state after
\* it; so every step that changes what a start would load takes it from the
\* one to the other.
C21_CrashSafePersistence ==
    [][LoadedAtStart(feedback_file') \in
           {LoadedAtStart(feedback_file), feedback'}]_vars

\* C22: feedback of earlier sessions survives later mutations: whatever the
\* order of the lazy load and the record_feedback calls of a new session,
\* the file a record_feedback call writes still holds, under one label or
\* the other, every key the file held before the call wrote it (the key
\* just relabelled is in it under its new label).
FileKeys(file) == IF file.exists THEN file.positive \cup file.negative ELSE {}

C22_PersistedFeedbackSurvives ==
    [][\A t \in Threads :
          (rf[t].pc = "persist" /\ feedback_file' # feedback_file) =>
              FileKeys(feedback_file) \ {rf[t].key} \subseteq FileKeys(feedback_file')]_vars

\* the statements of record_feedback inside the with block
InWithBlock(t) == rf[t].pc \in {"discard", "add", "persist"}

\* C23: concurrent feedback recording is serialized: the set mutation and
\* the file write of one call are not interleaved with those of another
\* (only the holder of the lock is inside the with block, and when it
\* comes to write, its key is under its label and under no other), and
\* whenever no call holds the lock, and no write failed, the file holds
\* exactly the in-memory sets.
C23_RecordingSerialized ==
    /\ \A t \in Threads : InWithBlock(t) => feedback_lock = t
    /\ \A t \in Threads : \A u \in Threads :
          (InWithBlock(t) /\ InWithBlock(u)) => t = u
    /\ \A t \in Threads : rf[t].pc = "persist" =>
          /\ rf[t].key \in LabelSet(feedback, rf[t].is_positive)
          /\ rf[t].key \notin LabelSet(feedback, ~rf[t].is_positive)
    /\ feedback_lock = "free" => Loaded(feedback_file) = feedback

\* one thread is about to write a label the file does not hold yet while
\* the other waits for the lock with a label for the same key
C23_Witness ==
    /\ rf["ui1"].pc = "persist"
    /\ rf["ui2"].pc = "lock"
    /\ rf["ui1"].key = rf["ui2"].key
    /\ rf["ui1"].is_positive # rf["ui2"].is_positive
    /\ Loaded(feedback_file) # feedback

\* the frame or the segment of an entry of a result list
Candidate(entry) ==
    IF "segment" \in DOMAIN entry THEN entry.segment ELSE entry.frame

\* C24: the list search and search_segments return has at most `limit`
\* entries, holds each candidate at most once, is sorted by non-increasing
\* adjusted score, and every score is within [0, 1].
C24_CandidateListContract ==
    sr.pc = "done" =>
        /\ Len(sr.out) <= SearchLimit
        /\ \A i \in 1..Len(sr.out) : \A j \in 1..Len(sr.out) :
              i # j => Candidate(sr.out[i]) # Candidate(sr.out[j])
        /\ \A i \in 1..Len(sr.out) : \A j \in 1..Len(sr.out) :
              i < j => sr.out[i].score >= sr.out[j].score
        /\ \A i \in 1..Len(sr.out) :
              sr.out[i].score >= 0 /\ sr.out[i].score <= 100

\* a search_segments call with more hits than the limit, in which the
\* feedback adjustment puts the second hit above the first
C24_Witness ==
    /\ sr.pc = "done"
    /\ Len(sr.results) > SearchLimit
    /\ Len(sr.out) = SearchLimit
    /\ "segment" \in DOMAIN sr.results[1]
    /\ sr.results[1].score > sr.results[2].score
    /\ Candidate(sr.out[1]) = sr.results[2].segment
    /\ sr.out[1].score > sr.out[2].score

\* the block indices carried by the "result_found" events of evs, in order
ResultIndices(evs) ==
    LET IsResult(e) == e.type = "result_found"
        found == SelectSeq(evs, IsResult)
    IN [i \in 1..Len(found) |-> found[i].idx]

\* C25: blocks are processed one after the other in document order: the
\* results hold one record per block for which _process_block returned
\* one, in document order; the "result_found" events come in that same
\* order, each right after the status of its own block and before the
\* status of the next block.
C25_BlocksInDocumentOrder ==
    call.state \in {"running", "returned"} =>
        /\ results = BlocksWith(blockLog, "match")
        /\ \A i \in 1..Len(results) : \A j \in 1..Len(results) :
              i < j => results[i] < results[j]
        /\ ResultIndices(events) = results
        /\ \A p \in 1..Len(events) :
              events[p].type = "result_found" =>
                  /\ p > 1
                  /\ events[p - 1] = ProcessingBlock(events[p].idx)
                  /\ p < Len(events) =>
                        events[p + 1] \in
                            {ProcessingBlock(events[p].idx + 1), Finished}

\* a run of two blocks has returned with a result for each
C25_Witness ==
    /\ call.state = "returned"
    /\ results = <<1, 2>>
    /\ events = <<BlocksFound(2), ProcessingBlock(1), ResultFound(1),
                  ProcessingBlock(2), ResultFound(2), Finished>>

\* C26: history extension and result emission agree: a block extends the
\* recency history if and only if a MatchRecord of a unique (plan-A)
\* selection of that block is appended to the results.
C26_HistoryAgreesWithResults ==
    [][(uniqueLog' # uniqueLog) <=>
           (Len(results') > Len(results) /\ sel'.kind = "unique")]_vars

\* C27: the entries of the recency history are pairwise non-duplicates in
\* every reachable state: no two entries carry the same video filename and
\* timestamps closer than time_window.
C27_HistoryPairwiseDistinct ==
    \A i \in 1..Len(used_frames_history) : \A j \in 1..Len(used_frames_history) :
        (i # j /\ used_frames_history[i][1] = used_frames_history[j][1]) =>
            Abs(used_frames_history[i][2] - used_frames_history[j][2])
                >= time_window

\* the history holds two entries of one video exactly time_window apart,
\* the newer one a frame just selected as unique
C27_Witness ==
    /\ pc = "selected"
    /\ mode = "frame"
    /\ sel.kind = "unique"
    /\ Len(used_frames_history) = 2
    /\ used_frames_history[1][1] = used_frames_history[2][1]
    /\ Abs(used_frames_history[1][2] - used_frames_history[2][2]) = time_window

\* C28: analyze_document(document_id) processes the blocks of the document
\* named by document_id on every call, whatever runs came before on the
\* same service: the blocks extracted are those of the document passed to
\* the current call.
C28_BlocksOfRequestedDocument ==
    call.state \in {"running", "returned"} => call.extracted = call.document_id

\* a record_feedback call is inside its with block, moving key from the
\* label it had before the call to the other label
Relabelling(t, key) ==
    /\ InWithBlock(t)
    /\ rf[t].key = key
    /\ key \in LabelSet(Loaded(feedback_file), ~rf[t].is_positive)

\* C29: a scoring read that runs while record_feedback relabels the key of
\* the unit applies the multiplier of the old label or that of the new
\* label: the score appended for the unit is never the unadjusted one.
C29_RelabelNeverNeutral ==
    [][(sr.pc \in {"read_negative", "read_positive"}
          /\ Len(sr'.adjusted) > Len(sr.adjusted)
          /\ Relabelling("ui1", _feedback_key(sr.results[sr.i].frame))) =>
         sr'.adjusted[Len(sr'.adjusted)].score \in
             {Clamp(TimesNegative(sr.results[sr.i].score)),
              Clamp(TimesPositive(sr.results[sr.i].score))}]_vars

====
